---- MODULE Spec2Model ----
(***************************************************************************)
(* The sampling pipeline of src/sample/sample.go: the strategies           *)
(* Temperature, Softmax, TopK, TopP, MinP, Weighed and Greedy, and the     *)
(* driver Sample that threads a logit vector through a list of them.       *)
(*                                                                         *)
(* Numbers.  A float64 is either NaN or an exact rational n/d in lowest    *)
(* terms.  Scores are measured in units of ln 2, so math.Exp of an         *)
(* integer score s is exactly 2^s; the exponentiating strategies are       *)
(* modelled on the vectors where that is exact (ExpExact).  Rounding,      *)
(* overflow to +/-Inf and underflow to 0 of the real float64 are outside   *)
(* the model.                                                              *)
(***************************************************************************)
EXTENDS Integers, Sequences, FiniteSets, TLC

\* the longest input vector
MaxLen == 3

\* the longest pipeline
MaxStages == 2

----------------------------------------------------------------------------
(* float64 arithmetic *)

NaN == [nan |-> TRUE, n |-> 0, d |-> 1]

Abs(x) == IF x < 0 THEN -x ELSE x

RECURSIVE GCD(_, _)
GCD(a, b) == IF b = 0 THEN a ELSE GCD(b, a % b)

Rat(n, d) ==
  LET g == GCD(Abs(n), d)
  IN  [nan |-> FALSE, n |-> n \div g, d |-> d \div g]

Zero == Rat(0, 1)
One == Rat(1, 1)
Two == Rat(2, 1)

IsNaN(x) == x.nan

Add(a, b) ==
  IF a.nan \/ b.nan THEN NaN
  ELSE LET g == GCD(a.d, b.d)
       IN  Rat(a.n * (b.d \div g) + b.n * (a.d \div g), (a.d \div g) * b.d)

Neg(a) == IF a.nan THEN NaN ELSE [a EXCEPT !.n = -a.n]

Sub(a, b) == Add(a, Neg(b))

Mul(a, b) ==
  IF a.nan \/ b.nan THEN NaN
  ELSE LET g1 == GCD(Abs(a.n), b.d)
           g2 == GCD(Abs(b.n), a.d)
       IN  Rat((a.n \div g1) * (b.n \div g2), (a.d \div g2) * (b.d \div g1))

\* a / b for b # 0
Quo(a, b) ==
  IF a.nan \/ b.nan THEN NaN
  ELSE Mul(a, IF b.n < 0 THEN Rat(-b.d, -b.n) ELSE Rat(b.d, b.n))

\* the Go operator <  (false when either side is NaN)
Less(a, b) ==
  /\ ~a.nan
  /\ ~b.nan
  /\ LET g == GCD(a.d, b.d)
     IN  a.n * (b.d \div g) < b.n * (a.d \div g)

\* cmp.Compare: NaN is less than any non-NaN and equal to NaN
Compare(x, y) ==
  IF x.nan THEN (IF y.nan THEN 0 ELSE -1)
  ELSE IF y.nan THEN 1
  ELSE IF Less(x, y) THEN -1
  ELSE IF Less(y, x) THEN 1
  ELSE 0

\* math.Max
MathMax(x, y) ==
  IF x.nan \/ y.nan THEN NaN ELSE IF Less(x, y) THEN y ELSE x

\* math.Exp on the ln 2 scale: Exp(s) = 2^s for an integer s
Exp(x) ==
  IF x.nan THEN NaN
  ELSE IF x.n >= 0 THEN Rat(2 ^ x.n, 1) ELSE Rat(1, 2 ^ (-x.n))

ExpExact(v) == \A i \in 1..Len(v) : v[i].nan \/ v[i].d = 1

----------------------------------------------------------------------------
(* gonum floats and the slices package *)

RECURSIVE MaxIdxFrom(_, _, _, _)
\* the loop of floats.MaxIdx from position i on (1-based), with max and ind
MaxIdxFrom(s, i, max, ind) ==
  IF i > Len(s) THEN ind
  ELSE IF IsNaN(s[i]) THEN MaxIdxFrom(s, i + 1, max, ind)
  ELSE IF Less(max, s[i]) \/ IsNaN(max) THEN MaxIdxFrom(s, i + 1, s[i], i)
  ELSE MaxIdxFrom(s, i + 1, max, ind)

\* floats.MaxIdx, as a 1-based position
MaxIdx(s) == MaxIdxFrom(s, 1, NaN, 1)

\* floats.Max
FloatsMax(s) == s[MaxIdx(s)]

RECURSIVE SumTo(_, _)
SumTo(s, i) == IF i = 0 THEN Zero ELSE Add(SumTo(s, i - 1), s[i])

\* floats.Sum
FloatsSum(s) == SumTo(s, Len(s))

\* floats.Scale
FloatsScale(c, s) == [i \in 1..Len(s) |-> Mul(c, s[i])]

\* the orders of n positions
PermTable ==
  [n \in 0..(MaxLen + 1) |->
     {f \in [1..n -> 1..n] : \A i, j \in 1..n : i # j => f[i] # f[j]}]

Perms(n) == PermTable[n]

\* slices.SortFunc(indices, func(i, j) { return cmp.Compare(v[j], v[i]) }):
\* the orders of the positions that are descending in v.  The sort is not
\* stable, so every order of equal elements is an outcome.
SortDesc(v) ==
  {f \in Perms(Len(v)) :
     \A i \in 1..(Len(v) - 1) : Compare(v[f[i + 1]], v[f[i]]) <= 0}

\* slices.Sort on float64: ascending, NaN first
SortAsc(v) ==
  LET f == CHOOSE g \in Perms(Len(v)) :
             \A i \in 1..(Len(v) - 1) : Compare(v[g[i]], v[g[i + 1]]) <= 0
  IN  [i \in 1..Len(v) |-> v[f[i]]]

----------------------------------------------------------------------------
(* the strategies.  A call's outcome is the returned slice (Nil for nil),  *)
(* the error ("" for nil) and mem, the content of the slice the strategy   *)
(* received as the call leaves it.                                          *)

Nil == <<>>

NoErr == ""

Fail(msg, logits) == [ret |-> Nil, err |-> msg, mem |-> logits]

\* the strategy wrote out into the slice it received and returns that slice
InPlace(out) == [ret |-> out, err |-> NoErr, mem |-> out]

\* the strategy returns a new slice and leaves the one it received alone
Fresh(out, logits) == [ret |-> out, err |-> NoErr, mem |-> logits]

Leq(a, b) == ~a.nan /\ ~b.nan /\ ~Less(b, a)

\* the literal 1e-7
TempFloor == Rat(1, 10000000)

TemperatureSample(t, logits) ==
  IF Less(t, Zero) \/ Less(Two, t)
  THEN Fail("temperature must be between 0 and 2", logits)
  ELSE LET maxLogit == FloatsMax(logits)
           temp == MathMax(t, TempFloor)
       IN  InPlace([i \in 1..Len(logits) |->
                      Quo(Sub(logits[i], maxLogit), temp)])

computeSoftmax(logits) ==
  LET copiedLogits == [i \in 1..Len(logits) |-> Exp(logits[i])]
      floatSum == FloatsSum(copiedLogits)
  IN  FloatsScale(Quo(One, floatSum), copiedLogits)

\* softmaxSample that reads an excluded position as the score 0
softmaxSampleNaNAsZero(logits) ==
  Fresh(computeSoftmax([i \in 1..Len(logits) |->
                          IF IsNaN(logits[i]) THEN Zero ELSE logits[i]]),
        logits)

softmaxSample(logits) == Fresh(computeSoftmax(logits), logits)

\* logits with the positions indices[from], indices[from+1], ... set to NaN
Exclude(logits, indices, from) ==
  [i \in 1..Len(logits) |->
     IF \E j \in from..Len(logits) : indices[j] = i THEN NaN ELSE logits[i]]

\* TopKSample with the comparison the other way round: an ascending sort
TopKSampleAscending(k, logits) ==
  IF k <= 0 THEN {Fail("k must be positive", logits)}
  ELSE IF k >= Len(logits) THEN {InPlace(logits)}
  ELSE {InPlace(Exclude(logits, indices, k + 1)) :
          indices \in {f \in Perms(Len(logits)) :
                         \A i \in 1..(Len(logits) - 1) :
                           Compare(logits[f[i]], logits[f[i + 1]]) <= 0}}

TopKSample(k, logits) ==
  IF k <= 0 THEN {Fail("k must be positive", logits)}
  ELSE IF k >= Len(logits) THEN {InPlace(logits)}
  ELSE {InPlace(Exclude(logits, indices, k + 1)) : indices \in SortDesc(logits)}

RECURSIVE CumSum(_, _, _)
\* cumSum after the loop of TopP has added probs[indices[1]] .. probs[indices[i]]
CumSum(probs, indices, i) ==
  IF i = 0 THEN Zero ELSE Add(CumSum(probs, indices, i - 1), probs[indices[i]])

\* TopPSample that stops at cumSum >= p
TopPSampleAtLeast(p, logits) ==
  IF Leq(p, Zero) \/ Leq(One, p)
  THEN {Fail("p must be between 0 and 1", logits)}
  ELSE LET probs == computeSoftmax(logits)
           Out(indices) ==
             LET over == {i \in 1..Len(probs) :
                            Leq(p, CumSum(probs, indices, i))}
             IN  IF over = {} THEN logits
                 ELSE LET first == CHOOSE i \in over : \A j \in over : i <= j
                      IN  Exclude(logits, indices, first + 1)
       IN  {InPlace(Out(indices)) : indices \in SortDesc(probs)}

TopPSample(p, logits) ==
  IF Leq(p, Zero) \/ Leq(One, p)
  THEN {Fail("p must be between 0 and 1", logits)}
  ELSE LET probs == computeSoftmax(logits)
           Out(indices) ==
             LET over == {i \in 1..Len(probs) :
                            Less(p, CumSum(probs, indices, i))}
             IN  IF over = {} THEN logits
                 ELSE LET first == CHOOSE i \in over : \A j \in over : i <= j
                      IN  Exclude(logits, indices, first + 1)
       IN  {InPlace(Out(indices)) : indices \in SortDesc(probs)}

\* MinPSample that accepts the bounds: the check p < 0 || p > 1
MinPSampleBoundsAccepted(p, logits) ==
  IF Less(p, Zero) \/ Less(One, p)
  THEN Fail("p must be between 0 and 1", logits)
  ELSE LET probs == computeSoftmax(logits)
           copiedProbs == SortAsc(probs)
           maxProb == copiedProbs[Len(copiedProbs)]
           probThreshold == Mul(p, maxProb)
       IN  InPlace([i \in 1..Len(logits) |->
                      IF Less(probs[i], probThreshold) THEN NaN ELSE logits[i]])

\* MinPSample that excludes at probs[i] <= probThreshold
MinPSampleAtMost(p, logits) ==
  IF Leq(p, Zero) \/ Leq(One, p)
  THEN Fail("p must be between 0 and 1", logits)
  ELSE LET probs == computeSoftmax(logits)
           copiedProbs == SortAsc(probs)
           maxProb == copiedProbs[Len(copiedProbs)]
           probThreshold == Mul(p, maxProb)
       IN  InPlace([i \in 1..Len(logits) |->
                      IF Leq(probs[i], probThreshold) THEN NaN ELSE logits[i]])

MinPSample(p, logits) ==
  IF Leq(p, Zero) \/ Leq(One, p)
  THEN Fail("p must be between 0 and 1", logits)
  ELSE LET probs == computeSoftmax(logits)
           copiedProbs == SortAsc(probs)
           maxProb == copiedProbs[Len(copiedProbs)]
           probThreshold == Mul(p, maxProb)
       IN  InPlace([i \in 1..Len(logits) |->
                      IF Less(probs[i], probThreshold) THEN NaN ELSE logits[i]])

\* the result of a terminal strategy: the 0-based index of position i
TokenID(i) == <<Rat(i - 1, 1)>>

\* weighedSample that returns the drawn index of the compacted slice
weighedSampleCompactedIndex(logits) ==
  LET indices == SelectSeq([i \in 1..Len(logits) |-> i],
                           LAMBDA i : ~IsNaN(logits[i]))
      logitsCopy == [j \in 1..Len(indices) |-> logits[indices[j]]]
  IN  IF Len(logitsCopy) = 0 THEN {Fail("no valid tokens found", logits)}
      ELSE LET w == computeSoftmax(logitsCopy)
               take == {v \in 1..Len(w) : Less(Zero, w[v])}
           IN  IF take = {} THEN {Fail("weighed sampler failed", logits)}
               ELSE {Fresh(TokenID(v), logits) : v \in take}

weighedSample(logits) ==
  LET indices == SelectSeq([i \in 1..Len(logits) |-> i],
                           LAMBDA i : ~IsNaN(logits[i]))
      logitsCopy == [j \in 1..Len(indices) |-> logits[indices[j]]]
  IN  IF Len(logitsCopy) = 0 THEN {Fail("no valid tokens found", logits)}
      ELSE LET w == computeSoftmax(logitsCopy)
               \* Weighted.Take draws an index of positive weight
               take == {v \in 1..Len(w) : Less(Zero, w[v])}
           IN  IF take = {} THEN {Fail("weighed sampler failed", logits)}
               ELSE {Fresh(TokenID(indices[v]), logits) : v \in take}

RECURSIVE PlainMaxIdxFrom(_, _, _)
PlainMaxIdxFrom(s, i, ind) ==
  IF i > Len(s) THEN ind
  ELSE IF Less(s[ind], s[i]) THEN PlainMaxIdxFrom(s, i + 1, i)
  ELSE PlainMaxIdxFrom(s, i + 1, ind)

\* greedySample over an argmax loop that starts at s[0] and compares with >
greedySamplePlainArgmax(logits) ==
  Fresh(TokenID(PlainMaxIdxFrom(logits, 1, 1)), logits)

greedySample(logits) == Fresh(TokenID(MaxIdx(logits)), logits)

----------------------------------------------------------------------------
(* samplers: the kind and its configuration c (a float64; TopK's int k is  *)
(* c.n; unused by Softmax, Weighed and Greedy)                              *)

Sampler(kind, c) == [kind |-> kind, c |-> c]

Temperature(t) == Sampler("Temperature", t)
Softmax == Sampler("Softmax", Zero)
TopK(k) == Sampler("TopK", Rat(k, 1))
TopP(p) == Sampler("TopP", p)
MinP(p) == Sampler("MinP", p)
Weighed == Sampler("Weighed", Zero)
Greedy == Sampler("Greedy", Zero)

\* the calls that exponentiate the vector they receive
Exponentiates(s) ==
  \/ s.kind \in {"Softmax", "Weighed"}
  \/ s.kind \in {"TopP", "MinP"} /\ Less(Zero, s.c) /\ Less(s.c, One)

\* the calls within the model's arithmetic
Modelled(s, logits) == Exponentiates(s) => ExpExact(logits)

----------------------------------------------------------------------------
(* inputs *)

Scores == {Zero, Two, Rat(4, 1)}

Vectors == UNION {[1..n -> Scores \cup {NaN}] : n \in 1..MaxLen}

Temps == {Rat(-1, 1), Zero, One, Two, Rat(3, 1)}

Probs == {Rat(j, 4) : j \in 0..4}

Samplers ==
  {Temperature(t) : t \in Temps} \cup {TopK(k) : k \in 0..MaxLen}
    \cup {TopP(p) : p \in Probs} \cup {MinP(p) : p \in Probs}
    \cup {Softmax, Weighed, Greedy}

\* the strategies pipelines are built from
Stock ==
  {Temperature(Zero), Temperature(Two), TopK(0), TopK(2), TopP(Rat(1, 2)),
   MinP(Rat(1, 2)), Weighed}

\* every single strategy, and every pipeline of at most MaxStages from Stock
Lists ==
  {<<s>> : s \in Samplers} \cup UNION {[1..n -> Stock] : n \in 0..MaxStages}

----------------------------------------------------------------------------
(* the driver Sample(logits, samplers...) *)

VARIABLES
  input,     \* the vector the caller passed
  samplers,  \* the strategy list the caller passed
  logits,    \* the local variable logits
  idx,       \* position of the range loop in samplers (1-based)
  pc,        \* "loop" while the loop runs, "done" once Sample has returned
  ret,       \* the returned slice
  err,       \* the returned error
  calls      \* the Sample methods called so far, in order

vars == <<input, samplers, logits, idx, pc, ret, err, calls>>

\* one call of a strategy's Sample method: at is the loop position, s the
\* strategy whose method ran, in the vector it received, out its outcome
Call(at, s, in, out) == [at |-> at, s |-> s, in |-> in, out |-> out]

Init ==
  /\ input \in Vectors
  /\ samplers \in Lists
  /\ logits = input
  /\ idx = 1
  /\ pc = "loop"
  /\ ret = Nil
  /\ err = NoErr
  /\ calls = <<>>

\* Invoke with the error check dropped: the loop goes on after a failure
InvokeIgnoringError(s, out, stop) ==
  /\ calls' = Append(calls, Call(idx, s, logits, out))
  /\ IF stop /\ out.err = NoErr
     THEN /\ pc' = "done"
          /\ ret' = out.ret
          /\ err' = NoErr
          /\ logits' = out.ret
          /\ UNCHANGED idx
     ELSE /\ logits' = IF out.err = NoErr THEN out.ret ELSE logits
          /\ idx' = idx + 1
          /\ UNCHANGED <<pc, ret, err>>
  /\ UNCHANGED <<input, samplers>>

\* logits, err = s.Sample(logits); if err != nil { return nil, err }
\* and, with stop, the return logits, nil of the zero-temperature branch
Invoke(s, out, stop) ==
  /\ calls' = Append(calls, Call(idx, s, logits, out))
  /\ IF out.err # NoErr
     THEN /\ pc' = "done"
          /\ ret' = Nil
          /\ err' = out.err
          /\ logits' = out.ret
          /\ UNCHANGED idx
     ELSE IF stop
     THEN /\ pc' = "done"
          /\ ret' = out.ret
          /\ err' = NoErr
          /\ logits' = out.ret
          /\ UNCHANGED idx
     ELSE /\ logits' = out.ret
          /\ idx' = idx + 1
          /\ UNCHANGED <<pc, ret, err>>
  /\ UNCHANGED <<input, samplers>>

\* sampler == Temperature(0)
IsZeroTemperature(s) == s = Temperature(Zero)

\* ShortCircuit without the return: greedy runs and the loop goes on
ShortCircuitWithoutReturn ==
  /\ pc = "loop"
  /\ idx <= Len(samplers)
  /\ IsZeroTemperature(samplers[idx])
  /\ Invoke(Greedy, greedySample(logits), FALSE)

\* the early return with greedy if temperature is 0
ShortCircuit ==
  /\ pc = "loop"
  /\ idx <= Len(samplers)
  /\ IsZeroTemperature(samplers[idx])
  /\ Invoke(Greedy, greedySample(logits), TRUE)

\* the loop is at a sampler of the given kind that is not Temperature(0)
At(kind) ==
  /\ pc = "loop"
  /\ idx <= Len(samplers)
  /\ ~IsZeroTemperature(samplers[idx])
  /\ samplers[idx].kind = kind
  /\ Modelled(samplers[idx], logits)

\* one iteration of the loop, by the dynamic type of sampler
RunTemperature ==
  /\ At("Temperature")
  /\ Invoke(samplers[idx], TemperatureSample(samplers[idx].c, logits), FALSE)

RunSoftmax ==
  /\ At("Softmax")
  /\ Invoke(samplers[idx], softmaxSample(logits), FALSE)

RunTopK ==
  /\ At("TopK")
  /\ \E out \in TopKSample(samplers[idx].c.n, logits) :
       Invoke(samplers[idx], out, FALSE)

RunTopP ==
  /\ At("TopP")
  /\ \E out \in TopPSample(samplers[idx].c, logits) :
       Invoke(samplers[idx], out, FALSE)

RunMinP ==
  /\ At("MinP")
  /\ Invoke(samplers[idx], MinPSample(samplers[idx].c, logits), FALSE)

RunWeighed ==
  /\ At("Weighed")
  /\ \E out \in weighedSample(logits) : Invoke(samplers[idx], out, FALSE)

RunGreedy ==
  /\ At("Greedy")
  /\ Invoke(samplers[idx], greedySample(logits), FALSE)

\* the loop is over: return logits, nil
Return ==
  /\ pc = "loop"
  /\ idx > Len(samplers)
  /\ pc' = "done"
  /\ ret' = logits
  /\ err' = NoErr
  /\ UNCHANGED <<input, samplers, logits, idx, calls>>

Next ==
  \/ ShortCircuit
  \/ RunTemperature
  \/ RunSoftmax
  \/ RunTopK
  \/ RunTopP
  \/ RunMinP
  \/ RunWeighed
  \/ RunGreedy
  \/ Return

Spec == Init /\ [][Next]_vars

----------------------------------------------------------------------------
(* vocabulary of the properties *)

Positions(v) == 1..Len(v)

Excluded(v) == {i \in Positions(v) : IsNaN(v[i])}

Survivors(v) == Positions(v) \ Excluded(v)

AllFinite(v) == Excluded(v) = {}

\* the calls made so far that ran a strategy of the given kind
CallsOf(kind) == {j \in 1..Len(calls) : calls[j].s.kind = kind}

Succeeded(c) == c.out.err = NoErr

\* the vector the driver holds when it reaches position j of the list
VectorAt(j) == IF j = 1 THEN input ELSE calls[j - 1].out.ret

\* the driver returned from the zero-temperature branch at position idx
ShortCircuited ==
  /\ pc = "done"
  /\ idx <= Len(samplers)
  /\ IsZeroTemperature(samplers[idx])

RECURSIVE SetSum(_, _)
\* the sum of probs over a set of positions
SetSum(probs, S) ==
  IF S = {} THEN Zero
  ELSE LET i == CHOOSE j \in S : TRUE
       IN  Add(probs[i], SetSum(probs, S \ {i}))

\* K is a minimal prefix, in descending order of probs over the positions
\* U, whose mass exceeds p: nothing outside K outranks a member of K, the
\* mass of K exceeds p, and K without its last member does not
MinimalPrefix(K, U, probs, p) ==
  /\ K # {}
  /\ K \subseteq U
  /\ \A i \in K, e \in U \ K : ~Less(probs[i], probs[e])
  /\ Less(p, SetSum(probs, K))
  /\ \E l \in K :
       /\ \A i \in K : ~Less(probs[i], probs[l])
       /\ ~Less(p, SetSum(probs, K \ {l}))

ValidP(p) == Less(Zero, p) /\ Less(p, One)

----------------------------------------------------------------------------
(* the driver *)

\* the driver has dispatched position j of the list
Reached(j) == j < idx \/ (j = idx /\ pc = "done")

\* C1: when Sample reaches a Temperature strategy whose value is exactly 0
\* it returns, without error, what Greedy returns on the vector as it
\* stands at that point, and no strategy listed after it is run.
C1_ZeroTemperatureReturnsGreedy ==
  \A j \in 1..Len(samplers) :
    IsZeroTemperature(samplers[j]) /\ Reached(j) =>
      /\ pc = "done"
      /\ idx = j
      /\ err = NoErr
      /\ ret = greedySample(VectorAt(j)).ret
      /\ Len(calls) = j
      /\ calls[j].s = Greedy
      /\ calls[j].out.mem = VectorAt(j)

\* a zero temperature with an invalid strategy listed after it, on a vector
\* whose maximum is at index 1
C1_Witness ==
  /\ ShortCircuited
  /\ idx = 1
  /\ Len(samplers) = 2
  /\ samplers[2] = TopK(0)
  /\ Len(input) = 3
  /\ ret = TokenID(2)

\* C2: Sample applies the strategies in list order, each receiving the
\* vector its predecessor produced; at the first failure it returns that
\* error with no result vector and runs no later strategy; with an empty
\* list it returns the input vector unchanged.
C2_InOrderAndAbortOnError ==
  /\ \A j \in 1..Len(calls) :
       /\ calls[j].at = j
       /\ calls[j].s = (IF IsZeroTemperature(samplers[j])
                        THEN Greedy ELSE samplers[j])
       /\ calls[j].in = VectorAt(j)
       /\ ~Succeeded(calls[j]) =>
            /\ j = Len(calls)
            /\ pc = "done"
            /\ err = calls[j].out.err
            /\ ret = Nil
  /\ pc = "loop" => Len(calls) = idx - 1
  /\ (pc = "done" /\ err = NoErr) =>
       /\ ShortCircuited \/ Len(calls) = Len(samplers)
       /\ ret = VectorAt(Len(calls) + 1)
       /\ \A j \in 1..Len(calls) : Succeeded(calls[j])
  /\ (pc = "done" /\ Len(samplers) = 0) => (ret = input /\ err = NoErr)

\* the second strategy failed on a vector the first one had changed
C2_Witness ==
  /\ pc = "done"
  /\ err = "k must be positive"
  /\ ret = Nil
  /\ Len(calls) = 2
  /\ calls[1].s = TopK(2)
  /\ calls[2].in # input

----------------------------------------------------------------------------
(* the strategies *)

NonTerminalKinds == {"Temperature", "Softmax", "TopK", "TopP", "MinP"}

NonTerminal(c) == c.s.kind \in NonTerminalKinds /\ Succeeded(c)

\* C3: across any run of non-terminal stages (Temperature in (0,2], TopK,
\* TopP, MinP, Softmax) the excluded positions only grow: a position that
\* holds NaN when a stage receives the vector or after it still holds NaN,
\* at the same index, after every later stage.
C3_ExclusionsOnlyGrow ==
  \A j, k \in 1..Len(calls) :
    (j <= k /\ \A m \in j..k : NonTerminal(calls[m])) =>
      /\ Len(calls[k].out.ret) = Len(calls[j].in)
      /\ Excluded(calls[j].in) \subseteq Excluded(calls[k].out.ret)
      /\ Excluded(calls[j].out.ret) \subseteq Excluded(calls[k].out.ret)
      /\ Excluded(calls[j].in) \subseteq Excluded(calls[k].out.mem)

\* TopK(2) excluded a position of a finite vector and Temperature(2), run
\* next, left it excluded and the others numeric
C3_Witness ==
  /\ Len(calls) = 2
  /\ calls[1].s = TopK(2)
  /\ calls[2].s = Temperature(Two)
  /\ AllFinite(input)
  /\ Excluded(calls[1].out.ret) # {}
  /\ Succeeded(calls[2])
  /\ Excluded(calls[2].out.ret) = Excluded(calls[1].out.ret)
  /\ calls[2].out.ret # calls[2].in

\* C4: on a vector of finite scores TopK with k >= length returns the vector
\* unchanged; with 0 < k < length exactly k positions stay non-excluded,
\* their scores untouched, no excluded position's original score is above a
\* surviving one, and all other positions hold NaN.
C4_TopKKeepsKLargest ==
  \A j \in CallsOf("TopK") :
    LET c == calls[j]
        k == c.s.c.n
        v == c.in
        r == c.out.ret
    IN  (k > 0 /\ AllFinite(v)) =>
          /\ Succeeded(c)
          /\ Len(r) = Len(v)
          /\ k >= Len(v) => r = v
          /\ k < Len(v) =>
               /\ Cardinality(Survivors(r)) = k
               /\ \A i \in Survivors(r) : r[i] = v[i]
               /\ \A i \in Survivors(r), e \in Excluded(r) : ~Less(v[i], v[e])

\* TopK(2) on three distinct finite scores excluded the smallest one
C4_Witness ==
  /\ Len(calls) >= 1
  /\ calls[1].s = TopK(2)
  /\ input = <<Two, Zero, Rat(4, 1)>>
  /\ calls[1].out.ret = <<Two, NaN, Rat(4, 1)>>

\* C5: on a vector of finite scores and p in (0,1), TopP keeps a non-empty
\* set of positions that is a minimal prefix, in descending order of softmax
\* probability, whose cumulative probability strictly exceeds p; survivors
\* keep their scores and every other position holds NaN.
C5_TopPKeepsMinimalPrefix ==
  \A j \in CallsOf("TopP") :
    LET c == calls[j]
        p == c.s.c
        v == c.in
        r == c.out.ret
    IN  (ValidP(p) /\ AllFinite(v)) =>
          /\ Succeeded(c)
          /\ Len(r) = Len(v)
          /\ \A i \in Survivors(r) : r[i] = v[i]
          /\ MinimalPrefix(Survivors(r), Positions(v), computeSoftmax(v), p)

\* probabilities 4/9, 4/9, 1/9 with p = 1/2: the first alone does not exceed
\* p, the first two do, and the third is excluded
C5_Witness ==
  /\ Len(calls) >= 1
  /\ calls[1].s = TopP(Rat(1, 2))
  /\ input = <<Two, Zero, Two>>
  /\ calls[1].out.ret = <<Two, NaN, Two>>

\* C6: on a vector of finite scores and p in (0,1), MinP excludes exactly
\* the positions whose softmax probability is strictly below p times the
\* maximum probability; a position at the threshold is retained, retained
\* positions keep their scores and the maximum always survives.
C6_MinPExcludesBelowThreshold ==
  \A j \in CallsOf("MinP") :
    LET c == calls[j]
        p == c.s.c
        v == c.in
        r == c.out.ret
        probs == computeSoftmax(v)
    IN  (ValidP(p) /\ AllFinite(v)) =>
          /\ Succeeded(c)
          /\ Len(r) = Len(v)
          /\ \A m \in Positions(v) :
               (\A i \in Positions(v) : ~Less(probs[m], probs[i])) =>
                 /\ ~IsNaN(r[m])
                 /\ \A i \in Positions(v) :
                      /\ IsNaN(r[i]) <=> Less(probs[i], Mul(p, probs[m]))
                      /\ ~IsNaN(r[i]) => r[i] = v[i]

\* probabilities 16/21, 4/21, 1/21 with p = 1/4: the second is exactly at the
\* threshold and stays, the third is below it and is excluded
C6_Witness ==
  /\ Len(calls) >= 1
  /\ calls[1].s = MinP(Rat(1, 4))
  /\ input = <<Rat(4, 1), Two, Zero>>
  /\ calls[1].out.ret = <<Rat(4, 1), Two, NaN>>

\* C7: Weighed returns a single-element sequence holding an index of the
\* vector it received (not of the compacted one) whose position is not
\* excluded; when every position is excluded it fails with "no valid tokens
\* found" and returns no index.
C7_WeighedReturnsSurvivor ==
  \A j \in CallsOf("Weighed") :
    LET c == calls[j]
        v == c.in
    IN  /\ c.out.mem = v
        /\ IF Survivors(v) = {}
           THEN c.out.err = "no valid tokens found" /\ c.out.ret = Nil
           ELSE /\ Succeeded(c)
                /\ \E i \in Survivors(v) : c.out.ret = TokenID(i)

\* the draw took the last position of a vector whose first position is
\* excluded: its index in the vector is 2, in the compacted slice 1
C7_Witness ==
  /\ Len(calls) >= 1
  /\ calls[1].s = Weighed
  /\ Excluded(input) = {1}
  /\ Len(input) = 3
  /\ calls[1].out.ret = TokenID(3)

\* C8: on a non-empty vector Greedy never fails and returns a single-element
\* sequence holding the lowest index among the positions of the maximum
\* score, excluded positions being ignored when some position is not
\* excluded.
C8_GreedyReturnsFirstMaximum ==
  \A j \in CallsOf("Greedy") :
    LET c == calls[j]
        v == c.in
    IN  /\ Succeeded(c)
        /\ Len(c.out.ret) = 1
        /\ Survivors(v) # {} =>
             \E i \in Survivors(v) :
               /\ c.out.ret = TokenID(i)
               /\ \A m \in Survivors(v) :
                    /\ ~Less(v[i], v[m])
                    /\ v[m] = v[i] => i <= m

\* the first position is excluded and the maximum is tied at indices 1 and 2
C8_Witness ==
  /\ Len(calls) >= 1
  /\ calls[1].s = Greedy
  /\ input = <<NaN, Two, Two>>
  /\ calls[1].out.ret = TokenID(2)

InvalidConfig(s) ==
  CASE s.kind = "Temperature" -> Less(s.c, Zero) \/ Less(Two, s.c)
    [] s.kind = "TopK" -> s.c.n <= 0
    [] s.kind \in {"TopP", "MinP"} -> ~ValidP(s.c)
    [] OTHER -> FALSE

\* C9: Temperature with t < 0 or t > 2, TopK with k <= 0 and TopP or MinP
\* with p <= 0 or p >= 1 return an error and leave every element of the
\* vector they received as it was; every other configuration is accepted.
C9_InvalidConfigRejectedUntouched ==
  \A j \in 1..Len(calls) :
    LET c == calls[j]
    IN  c.s.kind \in {"Temperature", "TopK", "TopP", "MinP"} =>
          IF InvalidConfig(c.s)
          THEN ~Succeeded(c) /\ c.out.ret = Nil /\ c.out.mem = c.in
          ELSE Succeeded(c)

\* MinP with p = 1 was rejected on a vector it would otherwise have cut
C9_Witness ==
  /\ Len(calls) >= 1
  /\ calls[1].s = MinP(One)
  /\ input = <<Rat(4, 1), Two, Zero>>
  /\ calls[1].out.err = "p must be between 0 and 1"
  /\ calls[1].out.mem = input
  /\ pc = "done"

\* the softmax probabilities of the non-excluded positions of v, excluded
\* positions counting for nothing
SurvivorProbs(v) ==
  LET w == [i \in Positions(v) |-> IF IsNaN(v[i]) THEN Zero ELSE Exp(v[i])]
      total == FloatsSum(w)
  IN  [i \in Positions(v) |-> Quo(w[i], total)]

\* C10: on a vector in which an earlier stage has excluded some positions,
\* TopP and MinP treat them as absent: TopP keeps only a minimal
\* descending-probability prefix of the surviving positions whose mass,
\* over the survivors, exceeds p, and MinP excludes every survivor whose
\* probability is below p times the largest surviving probability.
C10_SentinelsTreatedAsAbsent ==
  \A j \in CallsOf("TopP") \cup CallsOf("MinP") :
    LET c == calls[j]
        p == c.s.c
        v == c.in
        r == c.out.ret
        probs == SurvivorProbs(v)
    IN  (ValidP(p) /\ Excluded(v) # {} /\ Survivors(v) # {}) =>
          /\ Succeeded(c)
          /\ c.s.kind = "TopP" =>
               MinimalPrefix(Survivors(r), Survivors(v), probs, p)
          /\ c.s.kind = "MinP" =>
               \A i, m \in Survivors(v) :
                 Less(probs[i], Mul(p, probs[m])) => IsNaN(r[i])

====
